---- MODULE Spec2Model ----
(***************************************************************************)
(* K-Means clustering of embedding vectors (src/src/lib/kmeans.ts):        *)
(* K-Means++ seeding, nearest-centroid assignment, centroid update with    *)
(* empty-cluster reseeding, the iterate-until-converged driver and the     *)
(* per-cluster representative extraction.                                  *)
(*                                                                         *)
(* Numbers are exact rationals n/d (d > 0) in lowest terms; d = 0 is NaN.  *)
(* Math.sqrt(x) is kept symbolically as the surd of the rational x, so     *)
(* that comparisons of distances and similarities are exact.  Rounding of  *)
(* binary64 arithmetic is not part of the model.                           *)
(* Cluster indices are 0-based as in the source; sequences are 1-based.    *)
(*                                                                         *)
(* The access-token cache (src/src/lib/auth.ts) and the POST /cluster      *)
(* handler (src/src/index.ts with src/src/lib/firestore.ts) have their own *)
(* specifications, AuthSpec and HandlerSpec; an await is where a step of   *)
(* theirs ends.                                                            *)
(***************************************************************************)
EXTENDS Integers, Sequences, FiniteSets

\* ------------------------------------------------------------------ bounds
MaxN == 3          \* most input vectors of the small inputs
MaxDim == 2        \* longest small input vector
MaxCoord == 1      \* coordinates of the small inputs are 0..MaxCoord
MaxK == 3          \* k ranges over 1..MaxK
MaxIter == 2       \* explicit maxIterations range over 1..MaxIter
RandDen == 4       \* Math.random() yields m/RandDen, m in 0..RandDen-1
MaxTopN == 1       \* topN ranges over 0..MaxTopN
MaxTicks == 4      \* the clock runs over 0..MaxTicks steps of TickMs
TickMs == 30000    \* milliseconds the clock advances in one step
MaxExchanges == 3  \* token exchanges made in one run
MaxPosts == 6      \* most posts the document store returns

\* ------------------------------------------------------- program constants
DefaultMaxIterations == 100
DefaultTopN == 5
CacheMargin == 60000        \* auth.ts: cachedToken.expiresAt - 60000
MilliPerSecond == 1000      \* auth.ts: data.expires_in * 1000
DEFAULT_K == 8
DEFAULT_SAMPLE_SIZE == 300
MIN_CLUSTER_SIZE == 3

\* ---------------------------------------------------------------- numbers
Abs(x) == IF x < 0 THEN -x ELSE x

RECURSIVE GCD(_, _)
GCD(a, b) == IF b = 0 THEN a ELSE GCD(b, a % b)

NaN == [n |-> 0, d |-> 0]
IsNaN(x) == x.d = 0

Norm(n, d) ==
    IF d = 0 THEN NaN
    ELSE LET s == IF d < 0 THEN -1 ELSE 1
             g == GCD(Abs(n), Abs(d))
         IN  [n |-> (s * n) \div g, d |-> (s * d) \div g]

R(i) == [n |-> i, d |-> 1]
Zero == R(0)

RAdd(a, b) == IF IsNaN(a) \/ IsNaN(b) THEN NaN
              ELSE Norm(a.n * b.d + b.n * a.d, a.d * b.d)
RSub(a, b) == IF IsNaN(a) \/ IsNaN(b) THEN NaN
              ELSE Norm(a.n * b.d - b.n * a.d, a.d * b.d)
RMul(a, b) == IF IsNaN(a) \/ IsNaN(b) THEN NaN
              ELSE LET g1 == GCD(Abs(a.n), b.d)
                       g2 == GCD(Abs(b.n), a.d)
                   IN  Norm((a.n \div g1) * (b.n \div g2),
                            (a.d \div g2) * (b.d \div g1))
\* a / b for b # 0 (every division of the program has a non-zero divisor)
RDiv(a, b) == IF IsNaN(a) \/ IsNaN(b) THEN NaN
              ELSE RMul(a, Norm(b.d, b.n))

\* an/ad < bn/bd for an, bn >= 0 and ad, bd > 0, by the continued fractions
\* of the two sides (no product is formed)
RECURSIVE FracLt(_, _, _, _)
FracLt(an, ad, bn, bd) ==
    LET qa == an \div ad
        qb == bn \div bd
        ra == an % ad
        rb == bn % bd
    IN  IF qa # qb THEN qa < qb
        ELSE IF rb = 0 THEN FALSE
        ELSE IF ra = 0 THEN TRUE
        ELSE FracLt(bd, rb, ad, ra)

\* every comparison with NaN is false
RLt(a, b) == /\ ~IsNaN(a) /\ ~IsNaN(b)
             /\ IF a.n < 0
                THEN b.n >= 0 \/ FracLt(-b.n, b.d, -a.n, a.d)
                ELSE b.n >= 0 /\ FracLt(a.n, a.d, b.n, b.d)
REq(a, b) == ~IsNaN(a) /\ ~IsNaN(b) /\ a = b
RLe(a, b) == RLt(a, b) \/ REq(a, b)

\* Math.sqrt(x), kept as the surd of x; Infinity is the surd of no number
Sqrt(x) == [inf |-> FALSE, sq |-> x]
Infinity == [inf |-> TRUE, sq |-> Zero]
\* s * s for a surd s
SurdSquare(s) == s.sq
\* a < b on surds of non-negative numbers
SurdLt(a, b) == /\ ~a.inf
                /\ ~IsNaN(a.sq)
                /\ \/ b.inf
                   \/ RLt(a.sq, b.sq)

\* v[i] of the source for the 0-based index i: undefined past the end,
\* and undefined is NaN in arithmetic
At(v, i) == IF i + 1 <= Len(v) THEN v[i + 1] ELSE NaN

\* Math.floor(x) for x >= 0
Floor(x) == x.n \div x.d

\* the values Math.random() yields: a grid of [0, 1)
RandomValues == { Norm(m, RandDen) : m \in 0 .. RandDen - 1 }

\* ------------------------------------------------------ distance, similarity
\* sum after the loop of euclideanDistance has run for the indices 0..i-1
RECURSIVE euclideanSum(_, _, _)
euclideanSum(a, b, i) ==
    IF i = 0 THEN Zero
    ELSE LET diff == RSub(At(a, i - 1), At(b, i - 1))
         IN  RAdd(euclideanSum(a, b, i - 1), RMul(diff, diff))

euclideanDistance(a, b) == Sqrt(euclideanSum(a, b, Len(a)))

\* Math.min(...s) of a non-empty sequence of surds: NaN as soon as one is NaN
RECURSIVE MathMin(_, _)
MathMin(s, i) ==
    IF i = 1 THEN s[1]
    ELSE LET m == MathMin(s, i - 1)
         IN  IF IsNaN(m.sq) \/ IsNaN(s[i].sq) THEN Sqrt(NaN)
             ELSE IF SurdLt(s[i], m) THEN s[i] ELSE m

\* dotProduct, normA, normB after the loop of cosineSimilarity has run for 0..i-1
RECURSIVE cosineSums(_, _, _)
cosineSums(a, b, i) ==
    IF i = 0 THEN [dotProduct |-> Zero, normA |-> Zero, normB |-> Zero]
    ELSE LET p == cosineSums(a, b, i - 1)
         IN  [dotProduct |-> RAdd(p.dotProduct, RMul(At(a, i - 1), At(b, i - 1))),
              normA |-> RAdd(p.normA, RMul(At(a, i - 1), At(a, i - 1))),
              normB |-> RAdd(p.normB, RMul(At(b, i - 1), At(b, i - 1)))]

\* A similarity is the number num / sqrt(rad), rad > 0; NaN has num = NaN.
SimZero == [num |-> Zero, rad |-> R(1)]
SimNaN == [num |-> NaN, rad |-> R(1)]

cosineSimilarity(a, b) ==
    LET p == cosineSums(a, b, Len(a))
        magnitudeSq == RMul(p.normA, p.normB)
    IN  IF IsNaN(magnitudeSq) THEN SimNaN
        ELSE IF magnitudeSq = Zero THEN SimZero
        ELSE IF IsNaN(p.dotProduct) THEN SimNaN
        ELSE [num |-> p.dotProduct, rad |-> magnitudeSq]

\* x < y for similarities x, y (false when either is NaN)
SimLt(x, y) ==
    /\ ~IsNaN(x.num) /\ ~IsNaN(y.num)
    /\ LET xs == RDiv(RMul(x.num, x.num), x.rad)
           ys == RDiv(RMul(y.num, y.num), y.rad)
       IN  IF x.num.n < 0
           THEN y.num.n >= 0 \/ RLt(ys, xs)
           ELSE y.num.n >= 0 /\ RLt(xs, ys)

\* --------------------------------------------------------------- seeding
\* distances of initializeCentroids: for every vector the square of its
\* distance to the nearest centroid chosen so far
seedDistances(vecs, cents) ==
    [j \in 1 .. Len(vecs) |->
        LET minDist == MathMin([c \in 1 .. Len(cents) |->
                                   euclideanDistance(vecs[j], cents[c])],
                               Len(cents))
        IN  IF IsNaN(minDist.sq) THEN NaN ELSE SurdSquare(minDist)]

\* distances.reduce((a, b) => a + b, 0) over the first i entries
RECURSIVE reduceSum(_, _)
reduceSum(distances, i) ==
    IF i = 0 THEN Zero ELSE RAdd(reduceSum(distances, i - 1), distances[i])

\* the scan of initializeCentroids from the 0-based index j with the rest r:
\* the index whose vector is pushed, or -1 when the loop ends without a push
RECURSIVE weightedScan(_, _, _)
weightedScan(distances, r, j) ==
    IF j >= Len(distances) THEN -1
    ELSE LET rest == RSub(r, distances[j + 1])
         IN  IF RLe(rest, Zero) THEN j
             ELSE weightedScan(distances, rest, j + 1)

\* the first centroid: a copy of the vector at Math.floor(Math.random() * n)
firstCentroid(vecs, rnd) ==
    LET firstIdx == Floor(RMul(rnd, R(Len(vecs))))
    IN  << vecs[firstIdx + 1] >>

\* one round of the loop of initializeCentroids: the centroids after it
nextCentroid(vecs, cents, rnd) ==
    LET distances == seedDistances(vecs, cents)
        totalDist == reduceSum(distances, Len(distances))
        r == RMul(rnd, totalDist)
        j == weightedScan(distances, r, 0)
    IN  IF j = -1 THEN cents ELSE Append(cents, vecs[j + 1])

\* ------------------------------------------------------------ assignment
\* [minDist, assignment] after the loop of assignToCentroid has run for 0..i-1
RECURSIVE assignScan(_, _, _)
assignScan(vector, cents, i) ==
    IF i = 0 THEN [minDist |-> Infinity, assignment |-> 0]
    ELSE LET p == assignScan(vector, cents, i - 1)
             dist == euclideanDistance(vector, cents[i])
         IN  IF SurdLt(dist, p.minDist)
             THEN [minDist |-> dist, assignment |-> i - 1]
             ELSE p

assignToCentroidOneBased(vector, cents) ==
    assignScan(vector, cents, Len(cents)).assignment + 1

assignToCentroid(vector, cents) ==
    assignScan(vector, cents, Len(cents)).assignment

\* -------------------------------------------------------- centroid update
\* counts and sums of cluster c after the first loop of recalculateCentroids
\* has run for the vectors 0..i-1
RECURSIVE clusterSums(_, _, _, _, _)
clusterSums(vecs, assigns, c, dimension, i) ==
    IF i = 0 THEN [count |-> 0, sum |-> [d \in 1 .. dimension |-> Zero]]
    ELSE LET p == clusterSums(vecs, assigns, c, dimension, i - 1)
         IN  IF assigns[i] = c
             THEN [count |-> p.count + 1,
                   sum |-> [d \in 1 .. dimension |->
                               RAdd(p.sum[d], At(vecs[i], d - 1))]]
             ELSE p

\* the clusters (1-based) that no vector is assigned to
emptyClusters(assigns, kk) ==
    { c \in 1 .. kk : \A i \in 1 .. Len(assigns) : assigns[i] # c - 1 }

recalculateCentroidsOverAll(vecs, assigns, kk, dimension, rnd) ==
    [c \in 1 .. kk |->
        LET cs == clusterSums(vecs, assigns, c - 1, dimension, Len(vecs))
        IN  IF cs.count > 0
            THEN [d \in 1 .. dimension |-> RDiv(cs.sum[d], R(Len(vecs)))]
            ELSE LET randomIdx == Floor(RMul(rnd[c], R(Len(vecs))))
                 IN  vecs[randomIdx + 1]]

\* rnd[c] is the value Math.random() yields when cluster c is found empty
recalculateCentroids(vecs, assigns, kk, dimension, rnd) ==
    [c \in 1 .. kk |->
        LET cs == clusterSums(vecs, assigns, c - 1, dimension, Len(vecs))
        IN  IF cs.count > 0
            THEN [d \in 1 .. dimension |-> RDiv(cs.sum[d], R(cs.count))]
            ELSE LET randomIdx == Floor(RMul(rnd[c], R(Len(vecs))))
                 IN  vecs[randomIdx + 1]]

\* ------------------------------------------------------- representatives
\* clusterPosts of cluster c after the inner loop has run for the posts 0..i-1
RECURSIVE collectClusterPosts(_, _, _, _, _, _)
collectClusterPosts(vecs, posts, cents, assigns, c, i) ==
    IF i = 0 THEN << >>
    ELSE LET p == collectClusterPosts(vecs, posts, cents, assigns, c, i - 1)
         IN  IF assigns[i] = c
             THEN Append(p, [post |-> posts[i],
                             similarity |-> cosineSimilarity(vecs[i], cents[c + 1])])
             ELSE p

SortsBeforeAscending(a, b) == SimLt(a.similarity, b.similarity)
\* the comparator (a, b) => b.similarity - a.similarity is negative
SortsBefore(a, b) == SimLt(b.similarity, a.similarity)
\* ... is zero (NaN counts as zero)
SortsEqual(a, b) == ~SortsBefore(a, b) /\ ~SortsBefore(b, a)

\* the comparator is a consistent comparator for the entries of s: it is one
\* on numbers, and with NaN among them it is one when "zero" and "negative"
\* are transitive
ConsistentComparator(s) ==
    \/ \A i \in 1 .. Len(s) : ~IsNaN(s[i].similarity.num)
    \/ \A x, y, z \in { s[i] : i \in 1 .. Len(s) } :
        /\ SortsEqual(x, y) /\ SortsEqual(y, z) => SortsEqual(x, z)
        /\ SortsBefore(x, y) /\ SortsBefore(y, z) => SortsBefore(x, z)

\* x put into the sorted sequence s behind every entry it does not sort before
RECURSIVE insertSorted(_, _)
insertSorted(s, x) ==
    IF s = << >> THEN << x >>
    ELSE IF SortsBefore(x, s[Len(s)])
         THEN Append(insertSorted(SubSeq(s, 1, Len(s) - 1), x), s[Len(s)])
         ELSE Append(s, x)

\* the stable sort of the first i entries of s
RECURSIVE stableSort(_, _)
stableSort(s, i) ==
    IF i = 0 THEN << >> ELSE insertSorted(stableSort(s, i - 1), s[i])

Rearrangements(s) ==
    { [i \in 1 .. Len(s) |-> s[p[i]]] :
        p \in { q \in [1 .. Len(s) -> 1 .. Len(s)] :
                  \A i, j \in 1 .. Len(s) : i # j => q[i] # q[j] } }

\* what clusterPosts.sort(...) can leave: the stable sort, or, with an
\* inconsistent comparator, an implementation-defined order
sortOutcomes(s) ==
    IF ConsistentComparator(s) THEN { stableSort(s, Len(s)) } ELSE Rearrangements(s)

\* sorted.slice(0, topN).map(...) for topN >= 0
topEntries(sorted, c, top) ==
    [i \in 1 .. (IF top < Len(sorted) THEN top ELSE Len(sorted)) |->
        [cluster |-> c, posts |-> << sorted[i].post >>,
         similarity |-> sorted[i].similarity]]

\* the lists that representatives can hold after the outer loop of
\* getClusterRepresentatives has run for the clusters 0..c-1
RECURSIVE repsAfter(_, _, _, _, _, _)
repsAfter(vecs, posts, cents, assigns, top, c) ==
    IF c = 0 THEN { << >> }
    ELSE { Append(p, topEntries(sorted, c - 1, top)) :
             p \in repsAfter(vecs, posts, cents, assigns, top, c - 1),
             sorted \in sortOutcomes(collectClusterPosts(vecs, posts, cents, assigns,
                                                         c - 1, Len(posts))) }

\* the results getClusterRepresentatives can return (one, unless a sort ran
\* with an inconsistent comparator)
getClusterRepresentatives(vecs, posts, cents, assigns, top) ==
    repsAfter(vecs, posts, cents, assigns, top, Len(cents))

\* ------------------------------------------------------------------ state
VARIABLES
    vectors,          \* the input vectors
    options,          \* { k, maxIterations?, tolerance? }; << >> is "not given"
    pc,               \* the position of the caller in the code below
    error,            \* the error thrown by kMeansClustering, "none" otherwise
    dim,              \* vectors[0].length
    seedI,            \* the loop variable i of initializeCentroids
    centroids,
    assignments,
    iterations,
    iter,             \* the loop variable of the driver
    changed,          \* changed of the latest pass
    passes,           \* the assignment passes executed so far
    outcome,          \* how the loop was left: "Converged" (the break) or
                      \* "IterationLimitReached" (the loop condition)
    topN,
    representatives

kmeansVars == << vectors, options, pc, error, dim, seedI, centroids,
                 assignments, iterations, iter, changed, passes, outcome, topN,
                 representatives >>

\* the access-token cache of auth.ts
VARIABLES
    cachedToken,      \* << >> is null, else << [token, expiresAt] >>
    clock,            \* Date.now()
    exchanges,        \* the token exchanges requested so far
    tokenCall         \* the latest call of getGoogleAccessToken

authVars == << cachedToken, clock, exchanges, tokenCall >>

\* the POST /cluster handler of index.ts
VARIABLES
    hpc,              \* the position of the handler
    body,             \* the request body: { k?, sampleSize? }
    posts,            \* the embeddings of the posts fetched
    suggestions,      \* the suggestions runClustering has built
    written,          \* how the store answered the suggestion writes so far
    statsIssued,      \* the clustering-stats update has been sent
    failure,          \* the step that threw, "none" otherwise
    response          \* the response returned: [status, success]

handlerVars == << hpc, body, posts, suggestions, written, statsIssued, failure,
                  response >>

vars == << kmeansVars, authVars, handlerVars >>

\* the destructuring of options with its defaults
DefaultTolerance == Norm(1, 10000)
k == options.k
maxIterations ==
    IF options.maxIterations = << >> THEN DefaultMaxIterations
    ELSE options.maxIterations[1]
tolerance ==
    IF options.tolerance = << >> THEN DefaultTolerance ELSE options.tolerance[1]
n == Len(vectors)

toleranceTestInclusive(chg, nn, tol) == RLe(Norm(chg, nn), tol)
\* changed / n < tolerance
toleranceTest(chg, nn, tol) == RLt(Norm(chg, nn), tol)

iterationNumberZeroBased(it) == it
\* iterations = iter + 1
iterationNumber(it) == it + 1

passCentroidsAlwaysUpdated(converged, cents, recalculated) == recalculated
\* the centroids a pass leaves: the break skips the recalculation
passCentroids(converged, cents, recalculated) ==
    IF converged THEN cents ELSE recalculated

countChangedAfterFirst(newAssignments, oldAssignments) ==
    Cardinality({ i \in 2 .. Len(newAssignments) :
                    newAssignments[i] # oldAssignments[i] })
\* the number of indices on which two assignments differ
countChanged(newAssignments, oldAssignments) ==
    Cardinality({ i \in 1 .. Len(newAssignments) :
                    newAssignments[i] # oldAssignments[i] })

\* the opaque payloads that go with the vectors: one per index
Posts == [i \in 1 .. n |-> i]

\* ------------------------------------------------------------ token cache
ServiceAccountKeys == { "keyA", "keyB" }
\* a serviceAccountKeyJson that JSON.parse rejects
MalformedKey == "malformed"
\* the default of the parameter scopes, and another list of scopes
DefaultScopes == "datastore cloud-platform"
ScopeLists == { DefaultScopes, "other" }
\* expires_in of a token response, in seconds
ExpiresInChoices == { 60, 120 }

\* no call of getGoogleAccessToken yet
NoCall ==
    [state |-> "none", key |-> "", scopes |-> "", token |-> << >>,
     fromCache |-> FALSE, at |-> 0, expiresAt |-> 0]

\* cachedToken && Date.now() < cachedToken.expiresAt - 60000
cacheHit(cached, now) ==
    cached # << >> /\ now < cached[1].expiresAt - CacheMargin

\* Date.now() + (data.expires_in * 1000)
tokenExpiry(now, expiresIn) == now + expiresIn * MilliPerSecond

\* the module is loaded: nothing cached
AuthInit ==
    /\ cachedToken = << >>
    /\ clock = 0
    /\ exchanges = 0
    /\ tokenCall = NoCall

\* ---------------------------------------------------------------- handler
\* the key and the project the Worker is configured with
FirebaseKey == "keyA"
NoResponse == [status |-> 0, success |-> FALSE]
\* request bodies: k and sampleSize given or left out
BodyChoices ==
    { [k |-> kk, sampleSize |-> ss] :
        kk \in { << >>, << 1 >>, << 2 >> },
        ss \in { << >>, << MIN_CLUSTER_SIZE >> } }

\* body.k || DEFAULT_K
requestK(b) == IF b.k = << >> \/ b.k = << 0 >> THEN DEFAULT_K ELSE b.k[1]
\* body.sampleSize || DEFAULT_SAMPLE_SIZE
requestSampleSize(b) ==
    IF b.sampleSize = << >> \/ b.sampleSize = << 0 >> THEN DEFAULT_SAMPLE_SIZE
    ELSE b.sampleSize[1]

\* no request yet
HandlerIdle ==
    /\ hpc = "idle"
    /\ posts = << >>
    /\ suggestions = << >>
    /\ written = << >>
    /\ statsIssued = FALSE
    /\ failure = "none"
    /\ response = NoResponse

\* ----------------------------------------------------------------- inputs
Coords == { R(x) : x \in 0 .. MaxCoord }
VectorsOfDim(d) == [1 .. d -> Coords]
UniformInputs ==
    { << >> } \cup
    UNION { [1 .. p[1] -> VectorsOfDim(p[2])] : p \in (1 .. MaxN) \X (1 .. MaxDim) }
AnyVector == UNION { VectorsOfDim(d) : d \in 1 .. MaxDim }
\* inputs whose vectors are not all of one length
RaggedInputs ==
    { v \in UNION { [1 .. m -> AnyVector] : m \in 2 .. MaxN } :
        \E i \in 2 .. Len(v) : Len(v[i]) # Len(v[1]) }
\* two separated groups of three vectors
SixVectors == << << R(0), R(0) >>, << R(0), R(1) >>, << R(1), R(0) >>,
                 << R(10), R(10) >>, << R(10), R(11) >>, << R(11), R(10) >> >>
ToleranceChoices == { Zero, Norm(1, 2) }
OptionChoices ==
    { [k |-> kk, maxIterations |-> << m >>, tolerance |-> t] :
        kk \in 1 .. MaxK, m \in 1 .. MaxIter,
        t \in { << >> } \cup { << x >> : x \in ToleranceChoices } }
    \cup { [k |-> kk, maxIterations |-> << >>, tolerance |-> << >>] :
             kk \in 1 .. MaxK }

InitWith(inputs) ==
    /\ vectors \in inputs
    /\ options \in OptionChoices
    /\ pc = "entry"
    /\ error = "none"
    /\ dim = 0
    /\ seedI = 0
    /\ centroids = << >>
    /\ assignments = << >>
    /\ iterations = 0
    /\ iter = 0
    /\ changed = 0
    /\ passes = 0
    /\ outcome = "none"
    /\ topN = 0
    /\ representatives = << >>
    /\ AuthInit
    /\ HandlerIdle
    /\ body = [k |-> << >>, sampleSize |-> << >>]

\* inputs as the data source is meant to supply them: vectors of one length
Init == InitWith(UniformInputs \cup { SixVectors })
\* inputs whose vectors differ in length, with maxIterations given
InitRagged == InitWith(RaggedInputs) /\ options.maxIterations # << >>

\* --------------------------------------------------------- handler inputs
\* the embedding of a post: a vector, or << >> for one that runClustering
\* drops (not an array, or empty)
PostEmbeddings == { << >> } \cup VectorsOfDim(1)
\* what the query can return under the limit given
PostLists(limit) ==
    UNION { [1 .. m -> PostEmbeddings] :
              m \in 0 .. (IF limit < MaxPosts THEN limit ELSE MaxPosts) }
\* the embeddings runClustering keeps:
\* Array.isArray(embedding) && embedding.length > 0
validVectors(ps) == SelectSeq(ps, LAMBDA e : Len(e) > 0)

\* suggestions after the loop of runClustering has run for the clusters
\* 0..i-1: one for every cluster of at least MIN_CLUSTER_SIZE posts (name,
\* tags and thumbnails of a suggestion are left out)
RECURSIVE suggestionsAfter(_, _, _)
suggestionsAfter(assigns, cents, i) ==
    IF i = 0 THEN << >>
    ELSE LET p == suggestionsAfter(assigns, cents, i - 1)
             size == Cardinality({ j \in 1 .. Len(assigns) : assigns[j] = i - 1 })
         IN  IF size < MIN_CLUSTER_SIZE THEN p
             ELSE Append(p, [id |-> i - 1, centroid |-> cents[i],
                             postCount |-> size])

\* kMeansClustering has not been called
KMeansNotCalled ==
    /\ vectors = << >>
    /\ options = [k |-> DEFAULT_K, maxIterations |-> << >>, tolerance |-> << >>]
    /\ pc = "notCalled"
    /\ error = "none"
    /\ dim = 0
    /\ seedI = 0
    /\ centroids = << >>
    /\ assignments = << >>
    /\ iterations = 0
    /\ iter = 0
    /\ changed = 0
    /\ passes = 0
    /\ outcome = "none"
    /\ topN = 0
    /\ representatives = << >>

\* ---------------------------------------------------------------- actions
\* kMeansClustering, from its entry to the call of initializeCentroids
Enter ==
    /\ pc = "entry"
    /\ IF n = 0
       THEN \* vectors[0].length of an empty array
            /\ error' = "TypeError"
            /\ pc' = "thrown"
            /\ dim' = dim
       ELSE IF n < k
       THEN /\ error' = "InsufficientData"
            /\ pc' = "thrown"
            /\ dim' = Len(vectors[1])
       ELSE /\ error' = error
            /\ pc' = "seedFirst"
            /\ dim' = Len(vectors[1])
    /\ UNCHANGED << vectors, options, seedI, centroids, assignments, iterations,
                    iter, changed, passes, outcome, topN, representatives >>
    /\ UNCHANGED << authVars, handlerVars >>

\* initializeCentroids: the first centroid
SeedFirst ==
    /\ pc = "seedFirst"
    /\ \E rnd \in RandomValues : centroids' = firstCentroid(vectors, rnd)
    /\ seedI' = 1
    /\ pc' = "seedLoop"
    /\ UNCHANGED << vectors, options, error, dim, assignments, iterations, iter,
                    changed, passes, outcome, topN, representatives >>
    /\ UNCHANGED << authVars, handlerVars >>

\* initializeCentroids: one round of the loop for the remaining centroids
SeedNext ==
    /\ pc = "seedLoop"
    /\ seedI < k
    /\ \E rnd \in RandomValues : centroids' = nextCentroid(vectors, centroids, rnd)
    /\ seedI' = seedI + 1
    /\ UNCHANGED << vectors, options, pc, error, dim, assignments, iterations,
                    iter, changed, passes, outcome, topN, representatives >>
    /\ UNCHANGED << authVars, handlerVars >>

\* initializeCentroids returns; the driver sets up its loop
SeedReturn ==
    /\ pc = "seedLoop"
    /\ seedI >= k
    /\ assignments' = [i \in 1 .. n |-> 0]
    /\ iterations' = 0
    /\ iter' = 0
    /\ pc' = "loop"
    /\ UNCHANGED << vectors, options, error, dim, seedI, centroids, changed,
                    passes, outcome, topN, representatives >>
    /\ UNCHANGED << authVars, handlerVars >>

\* one pass of the driver's loop
Pass ==
    /\ pc = "loop"
    /\ iter < maxIterations
    /\ iterations' = iterationNumber(iter)
    /\ passes' = passes + 1
    /\ LET newAssignments ==
               [i \in 1 .. n |-> assignToCentroid(vectors[i], centroids)]
           chg == countChanged(newAssignments, assignments)
           converged == toleranceTest(chg, n, tolerance)
       IN  /\ changed' = chg
           /\ assignments' = newAssignments
           /\ \E rnd \in [emptyClusters(newAssignments, k) -> RandomValues] :
                  centroids' =
                      passCentroids(converged, centroids,
                                    recalculateCentroids(vectors, newAssignments,
                                                         k, dim, rnd))
           /\ IF converged
              THEN \* break, then return
                   /\ outcome' = "Converged"
                   /\ pc' = "returned"
                   /\ iter' = iter
              ELSE /\ iter' = iter + 1
                   /\ UNCHANGED << outcome, pc >>
    /\ UNCHANGED << vectors, options, error, dim, seedI, topN, representatives >>
    /\ UNCHANGED << authVars, handlerVars >>

\* the loop condition fails; the driver returns
LoopExit ==
    /\ pc = "loop"
    /\ iter >= maxIterations
    /\ outcome' = "IterationLimitReached"
    /\ pc' = "returned"
    /\ UNCHANGED << vectors, options, error, dim, seedI, centroids, assignments,
                    iterations, iter, changed, passes, topN,
                    representatives >>
    /\ UNCHANGED << authVars, handlerVars >>

\* getClusterRepresentatives, called with the driver's result
GetReps ==
    /\ pc = "returned"
    /\ \E top \in (0 .. MaxTopN) \cup { DefaultTopN } :
          /\ topN' = top
          /\ representatives' \in
                 getClusterRepresentatives(vectors, Posts, centroids, assignments, top)
    /\ pc' = "repsDone"
    /\ UNCHANGED << vectors, options, error, dim, seedI, centroids, assignments,
                    iterations, iter, changed, passes, outcome >>
    /\ UNCHANGED << authVars, handlerVars >>

Next ==
    \/ Enter
    \/ SeedFirst
    \/ SeedNext
    \/ SeedReturn
    \/ Pass
    \/ LoopExit
    \/ GetReps

Spec == Init /\ [][Next]_vars
SpecRagged == InitRagged /\ [][Next]_vars

\* ---------------------------------------------------- token cache actions
\* getGoogleAccessToken(key, scopes) up to its first await: the cached token
\* is returned, or JSON.parse throws, or the token exchange is requested
getGoogleAccessToken(key, scopes) ==
    /\ tokenCall.state # "exchange"
    /\ exchanges < MaxExchanges
    /\ tokenCall' =
           IF cacheHit(cachedToken, clock)
           THEN [state |-> "returned", key |-> key, scopes |-> scopes,
                 token |-> << cachedToken[1].token >>, fromCache |-> TRUE,
                 at |-> clock, expiresAt |-> cachedToken[1].expiresAt]
           ELSE [state |-> IF key = MalformedKey THEN "thrown" ELSE "exchange",
                 key |-> key, scopes |-> scopes, token |-> << >>,
                 fromCache |-> FALSE, at |-> clock, expiresAt |-> 0]
    /\ UNCHANGED << cachedToken, clock, exchanges >>

\* the token endpoint answers the JWT signed with the key for the scopes:
\* the call throws, or caches and returns the token issued
tokenExchange ==
    /\ tokenCall.state = "exchange"
    /\ exchanges' = exchanges + 1
    /\ \/ /\ tokenCall' = [tokenCall EXCEPT !.state = "thrown", !.at = clock]
          /\ UNCHANGED cachedToken
       \/ \E expiresIn \in ExpiresInChoices :
            LET issued == [key |-> tokenCall.key, scopes |-> tokenCall.scopes,
                           serial |-> exchanges + 1]
                expiresAt == tokenExpiry(clock, expiresIn)
            IN  /\ cachedToken' = << [token |-> issued, expiresAt |-> expiresAt] >>
                /\ tokenCall' = [tokenCall EXCEPT !.state = "returned",
                                                  !.token = << issued >>,
                                                  !.at = clock,
                                                  !.expiresAt = expiresAt]
    /\ UNCHANGED clock

\* a caller calls getGoogleAccessToken
CallToken ==
    /\ \E key \in ServiceAccountKeys \cup { MalformedKey }, scopes \in ScopeLists :
          getGoogleAccessToken(key, scopes)
    /\ UNCHANGED << kmeansVars, handlerVars >>

ExchangeToken ==
    /\ tokenExchange
    /\ UNCHANGED << kmeansVars, handlerVars >>

\* time passes
Tick ==
    /\ clock < MaxTicks * TickMs
    /\ clock' = clock + TickMs
    /\ UNCHANGED << cachedToken, exchanges, tokenCall, kmeansVars, handlerVars >>

AuthInitAll ==
    /\ AuthInit
    /\ KMeansNotCalled
    /\ HandlerIdle
    /\ body = [k |-> << >>, sampleSize |-> << >>]

AuthNext ==
    \/ CallToken
    \/ ExchangeToken
    \/ Tick

AuthSpec == AuthInitAll /\ [][AuthNext]_vars

\* -------------------------------------------------------- handler actions
\* the catch of fetch: status 500, success: false
respondError(step) ==
    /\ failure' = step
    /\ response' = [status |-> 500, success |-> FALSE]
    /\ hpc' = "responded"

\* fetch for POST /cluster: request.json() resolves; runClustering runs up to
\* its await of getGoogleAccessToken
Receive ==
    /\ hpc = "idle"
    /\ \/ \* the body is not JSON
          /\ respondError("body")
          /\ UNCHANGED authVars
       \/ /\ getGoogleAccessToken(FirebaseKey, DefaultScopes)
          /\ hpc' = "token"
          /\ UNCHANGED << failure, response >>
    /\ UNCHANGED << kmeansVars, body, posts, suggestions, written, statsIssued >>

\* getGoogleAccessToken has thrown, in runClustering or in updateStats
TokenThrown ==
    /\ hpc \in { "token", "statsToken" }
    /\ tokenCall.state = "thrown"
    /\ respondError(hpc)
    /\ UNCHANGED << kmeansVars, authVars, body, posts, suggestions, written,
                    statsIssued >>

\* runClustering from the token to the call of kMeansClustering:
\* getPostsWithEmbeddings, the check of posts.length, the embeddings kept
FetchPosts ==
    /\ hpc = "token"
    /\ tokenCall.state = "returned"
    /\ \/ \* the query fails or is answered with an error status
          /\ respondError("fetchPosts")
          /\ UNCHANGED << kmeansVars, posts >>
       \/ \E ps \in PostLists(requestSampleSize(body)) :
            /\ posts' = ps
            /\ IF Len(ps) < requestK(body)
               THEN /\ respondError("notEnoughPosts")
                    /\ UNCHANGED kmeansVars
               ELSE /\ vectors' = validVectors(ps)
                    /\ options' = [k |-> requestK(body), maxIterations |-> << >>,
                                   tolerance |-> << >>]
                    /\ pc' = "entry"
                    /\ hpc' = "kMeans"
                    /\ UNCHANGED << error, dim, seedI, centroids, assignments,
                                    iterations, iter, changed, passes, outcome,
                                    topN, representatives, failure, response >>
    /\ UNCHANGED << authVars, body, suggestions, written, statsIssued >>

\* kMeansClustering has thrown
ClusteringThrown ==
    /\ hpc = "kMeans"
    /\ pc = "thrown"
    /\ respondError("clustering")
    /\ UNCHANGED << kmeansVars, authVars, body, posts, suggestions, written,
                    statsIssued >>

\* kMeansClustering has returned: the loop that builds the suggestions
BuildSuggestions ==
    /\ hpc = "kMeans"
    /\ pc = "returned"
    /\ suggestions' = suggestionsAfter(assignments, centroids, k)
    /\ hpc' = "write"
    /\ UNCHANGED << kmeansVars, authVars, body, posts, written, statsIssued,
                    failure, response >>

\* writeClusterSuggestions: the PATCH of the next suggestion is answered; the
\* answer is not looked at; a request that fails rejects the await
WriteSuggestion ==
    /\ hpc = "write"
    /\ Len(written) < Len(suggestions)
    /\ \/ /\ \E answer \in { "accepted", "rejected" } :
                written' = Append(written, answer)
          /\ UNCHANGED << hpc, failure, response >>
       \/ /\ written' = Append(written, "failed")
          /\ respondError("write")
    /\ UNCHANGED << kmeansVars, authVars, body, posts, suggestions, statsIssued >>

\* writeClusterSuggestions and runClustering return; updateStats runs up to
\* its await of getGoogleAccessToken
UpdateStats ==
    /\ hpc = "write"
    /\ Len(written) = Len(suggestions)
    /\ getGoogleAccessToken(FirebaseKey, DefaultScopes)
    /\ hpc' = "statsToken"
    /\ UNCHANGED << kmeansVars, body, posts, suggestions, written, statsIssued,
                    failure, response >>

\* updateClusteringStats: the PATCH is sent; the handler responds
SendStats ==
    /\ hpc = "statsToken"
    /\ tokenCall.state = "returned"
    /\ statsIssued' = TRUE
    /\ \/ \* answered, with whatever status
          /\ response' = [status |-> 200, success |-> TRUE]
          /\ hpc' = "responded"
          /\ UNCHANGED failure
       \/ \* the request fails
          respondError("stats")
    /\ UNCHANGED << kmeansVars, authVars, body, posts, suggestions, written >>

HandlerInit ==
    /\ KMeansNotCalled
    /\ AuthInit
    /\ HandlerIdle
    /\ body \in BodyChoices

\* one request, served within one step of the clock; with the options
\* runClustering passes and at most MaxPosts vectors the loop of the driver
\* always ends by its break, never by its condition
HandlerNext ==
    \/ Receive
    \/ ExchangeToken
    \/ TokenThrown
    \/ FetchPosts
    \/ Enter
    \/ SeedFirst
    \/ SeedNext
    \/ SeedReturn
    \/ Pass
    \/ ClusteringThrown
    \/ BuildSuggestions
    \/ WriteSuggestion
    \/ UpdateStats
    \/ SendStats

HandlerSpec == HandlerInit /\ [][HandlerNext]_vars

\* ----------------------------------------------------------------- claims
Returned == pc \in { "returned", "repsDone" }
\* the 1-based indices of the vectors assigned to the 0-based cluster c
Members(c) == { i \in 1 .. Len(assignments) : assignments[i] = c }
\* the distance the assignment pass computes from vector i to centroid j
DistanceTo(i, j) == euclideanDistance(vectors[i], centroids[j])
Ragged == \E i \in 1 .. n : Len(vectors[i]) # Len(vectors[1])

\* C1: every returned result holds one assignment per input vector, each a
\* cluster index in 0..k-1, on the Converged and on the IterationLimitReached
\* exit.
AssignmentCompleteness ==
    Returned =>
        /\ outcome \in { "Converged", "IterationLimitReached" }
        /\ DOMAIN assignments = 1 .. n
        /\ \A i \in 1 .. n : assignments[i] \in 0 .. k - 1

\* a run that returned at the iteration limit with the highest cluster index
\* in use
AssignmentCompletenessWitness ==
    /\ pc = "returned"
    /\ outcome = "IterationLimitReached"
    /\ k >= 2
    /\ \E i \in 1 .. n : assignments[i] = k - 1

\* C2: with n >= k >= 1 the driver holds exactly k centroids once seeding has
\* returned: in its loop, after every update and in the returned result.
ExactlyKCentroids ==
    (pc \in { "loop", "returned", "repsDone" } /\ n >= k) => Len(centroids) = k

\* C3: with maxIterations >= 1 the driver makes at most maxIterations passes
\* and returns, without an error, an iteration count in 1..maxIterations that
\* is the number of passes made.
IterationCount ==
    /\ passes <= maxIterations
    /\ Returned =>
          /\ error = "none"
          /\ iterations \in 1 .. maxIterations
          /\ iterations = passes

\* a run that returned at the cap after more than one pass
IterationCountWitness ==
    /\ pc = "returned"
    /\ outcome = "IterationLimitReached"
    /\ iterations = maxIterations
    /\ iterations >= 2

\* C4: with fewer vectors than k, or with no vector at all, the call fails
\* with the InsufficientData error before seeding.
InsufficientDataAtEntry ==
    (pc # "entry" /\ (n < k \/ n = 0)) =>
        /\ pc = "thrown"
        /\ error = "InsufficientData"

\* C5: input vectors that do not all share one length make the call fail at
\* entry, before seeding begins.
DimensionMismatchAtEntry ==
    (pc # "entry" /\ Ragged) => pc = "thrown"

\* C6: the six vectors with k = 2 and the default options come back with the
\* first three in one cluster and the last three in the other.
SixVectorsTwoGroups ==
    ( /\ Returned
      /\ vectors = SixVectors
      /\ k = 2
      /\ options.maxIterations = << >>
      /\ options.tolerance = << >> ) =>
        /\ assignments[1] = assignments[2]
        /\ assignments[2] = assignments[3]
        /\ assignments[4] = assignments[5]
        /\ assignments[5] = assignments[6]
        /\ assignments[1] # assignments[4]

\* C7: for every cluster the returned list holds only payloads of that cluster,
\* each once and with its similarity to the cluster's centroid, in order of
\* non-increasing similarity, and is min(topN, number of members) long; an
\* empty cluster yields an empty list.
RepresentativeOrdering ==
    pc = "repsDone" =>
        /\ Len(representatives) = Len(centroids)
        /\ \A c \in 1 .. Len(centroids) :
              LET list == representatives[c]
                  members == Members(c - 1)
                  size == Cardinality(members)
              IN  /\ Len(list) = IF topN < size THEN topN ELSE size
                  /\ \A j \in 1 .. Len(list) :
                        /\ list[j].cluster = c - 1
                        /\ Len(list[j].posts) = 1
                        /\ list[j].posts[1] \in members
                        /\ list[j].similarity =
                               cosineSimilarity(vectors[list[j].posts[1]], centroids[c])
                  /\ \A i, j \in 1 .. Len(list) :
                        i < j =>
                            /\ list[i].posts[1] # list[j].posts[1]
                            /\ ~SimLt(list[i].similarity, list[j].similarity)

\* top-1 of a cluster with several members, where the member returned is not
\* the first of the cluster in input order, next to a cluster of fewer than
\* topN members
RepresentativeOrderingWitness ==
    /\ pc = "repsDone"
    /\ topN = 1
    /\ \E c \in 1 .. Len(centroids) :
          /\ Cardinality(Members(c - 1)) >= 2
          /\ Len(representatives[c]) = 1
          /\ \E i \in Members(c - 1) : i < representatives[c][1].posts[1]
    /\ \E c \in 1 .. Len(centroids) : Members(c - 1) = { }

\* C8: when the driver returns by the tolerance test, every vector is assigned
\* to the lowest-indexed of the returned centroids nearest to it.
ConvergedAssignmentIsNearest ==
    (Returned /\ outcome = "Converged") =>
        \A i \in 1 .. n :
            LET a == assignments[i] + 1
            IN  /\ a \in 1 .. Len(centroids)
                /\ \A j \in 1 .. Len(centroids) :
                      /\ ~SurdLt(DistanceTo(i, j), DistanceTo(i, a))
                      /\ j < a => SurdLt(DistanceTo(i, a), DistanceTo(i, j))

\* a run that converged after an update of the centroids, with a vector that
\* has two nearest centroids
ConvergedAssignmentIsNearestWitness ==
    /\ pc = "returned"
    /\ outcome = "Converged"
    /\ passes >= 2
    /\ \E i \in 1 .. n : \E j \in 1 .. Len(centroids) :
          /\ j # assignments[i] + 1
          /\ DistanceTo(i, j) = DistanceTo(i, assignments[i] + 1)
    /\ \E i \in 1 .. n : assignments[i] # 0

\* C9 as claimed: a pass whose fraction of changed vectors does not exceed the
\* tolerance ends the run Converged in that pass.
ToleranceNotExceededConverges ==
    ( /\ pc \in { "loop", "returned" }
      /\ passes >= 1
      /\ RLe(Norm(changed, n), tolerance) ) => outcome = "Converged"

\* C9 as amended: a pass ends the run Converged, with no further pass, when
\* the fraction of changed vectors is strictly below the tolerance, and only
\* then.
ToleranceBelowConverges ==
    (pc \in { "loop", "returned", "repsDone" } /\ passes >= 1) =>
        /\ outcome = "Converged" <=> RLt(Norm(changed, n), tolerance)
        /\ outcome = "Converged" => (pc # "loop" /\ iterations = passes)

\* a run that converged before the cap in a pass in which a vector changed
\* cluster
ToleranceBelowConvergesWitness ==
    /\ pc = "returned"
    /\ outcome = "Converged"
    /\ changed >= 1
    /\ passes < maxIterations

\* the sum of coordinate d over the vectors with the indices in S
RECURSIVE SumCoord(_, _)
SumCoord(S, d) ==
    IF S = { } THEN Zero
    ELSE LET i == CHOOSE x \in S : TRUE
         IN  RAdd(vectors[i][d], SumCoord(S \ { i }, d))

\* C10: after a centroid update every cluster with members has the mean of
\* its members in every dimension, and every cluster without members has a
\* copy of an input vector.
RecalculatedCentroidsAreMeans ==
    ( /\ pc = "loop" \/ (Returned /\ outcome = "IterationLimitReached")
      /\ passes >= 1 ) =>
        /\ error = "none"
        /\ Len(centroids) = k
        /\ \A c \in 1 .. k :
              LET members == Members(c - 1)
              IN  IF members # { }
                  THEN /\ Len(centroids[c]) = dim
                       /\ \A d \in 1 .. dim :
                             RMul(centroids[c][d], R(Cardinality(members)))
                                 = SumCoord(members, d)
                  ELSE \E i \in 1 .. n : centroids[c] = vectors[i]

\* an update that found one cluster empty and averaged another over several
\* different vectors
RecalculatedCentroidsAreMeansWitness ==
    /\ pc = "loop"
    /\ passes >= 1
    /\ \E c \in 1 .. k : Members(c - 1) = { }
    /\ \E c \in 1 .. k : \E i, j \in Members(c - 1) : vectors[i] # vectors[j]

\* C11: in every round of the seeding loop, whatever the random source
\* yields, the vector pushed as the next centroid is not one at squared
\* distance 0 from the centroids chosen before it, as long as some input
\* vector is at a positive squared distance from them.
ZeroWeightNeverDrawn ==
    (pc = "seedLoop" /\ ~Ragged) =>
        \A c \in 2 .. Len(centroids) :
            LET distances == seedDistances(vectors, SubSeq(centroids, 1, c - 1))
            IN  (\E i \in 1 .. n : RLt(Zero, distances[i])) =>
                    \A i \in 1 .. n :
                        vectors[i] = centroids[c] => distances[i] # Zero

\* every cluster with members has as its centroid the mean of its members in
\* every dimension
MemberMeans ==
    \A c \in 1 .. Len(centroids) :
        LET members == Members(c - 1)
        IN  members # { } =>
                /\ Len(centroids[c]) = dim
                /\ \A d \in 1 .. dim :
                      RMul(centroids[c][d], R(Cardinality(members)))
                          = SumCoord(members, d)

\* C12 as claimed: a run that returns Converged after a pass in which no vector
\* changed cluster, the first pass included, returns for every cluster with
\* members the mean of the vectors assigned to it.
ConvergedCentroidsAreMeans ==
    (Returned /\ outcome = "Converged" /\ changed = 0) => MemberMeans

\* C12 as amended: a run that returns Converged after a second or later pass
\* in which no vector changed cluster returns for every cluster with members
\* the mean of the vectors assigned to it.
ConvergedAfterUpdateCentroidsAreMeans ==
    (Returned /\ outcome = "Converged" /\ changed = 0 /\ passes >= 2) =>
        MemberMeans

\* a run that converged in its second pass on two clusters, one of them the
\* mean of several different vectors
ConvergedAfterUpdateCentroidsAreMeansWitness ==
    /\ pc = "returned"
    /\ outcome = "Converged"
    /\ changed = 0
    /\ passes >= 2
    /\ \E c \in 1 .. k : \E i, j \in Members(c - 1) : vectors[i] # vectors[j]
    /\ \E i \in 1 .. n : assignments[i] # 0

\* a step of the run that the claim C13 names has failed: fetching the posts,
\* the clustering, or a suggestion write the store did not accept
RunFailed ==
    \/ failure \in { "fetchPosts", "notEnoughPosts", "clustering", "write" }
    \/ \E i \in 1 .. Len(written) : written[i] # "accepted"

\* C13: the handler of POST /cluster answers success: true, and sends the
\* clustering-stats update, only when the store accepted every suggestion
\* write of the run; when fetching the posts, the clustering or a suggestion
\* write has failed, it answers status 500 with success: false and sends no
\* stats update.
SuccessOnlyIfAllWritesAccepted ==
    /\ (response.success \/ statsIssued) =>
          /\ Len(written) = Len(suggestions)
          /\ \A i \in 1 .. Len(written) : written[i] = "accepted"
    /\ (hpc = "responded" /\ RunFailed) =>
          /\ response = [status |-> 500, success |-> FALSE]
          /\ ~statsIssued

\* C14: after any sequence of calls, the token a call with key K and scopes S
\* returns was issued by a token exchange made with that K and S, and a token
\* that came from the cache was returned no later than 60 seconds before its
\* recorded expiry.
ReturnedTokenMatchesCall ==
    tokenCall.state = "returned" =>
        /\ tokenCall.token[1].key = tokenCall.key
        /\ tokenCall.token[1].scopes = tokenCall.scopes
        /\ tokenCall.fromCache =>
               tokenCall.at <= tokenCall.expiresAt - CacheMargin

====
